---------------------------- MODULE Spec2Model ----------------------------
(***************************************************************************)
(* Learning Hub (src/app.py): the content-selection / progress state       *)
(* machine of main(), one action per user event, each followed by the full *)
(* top-to-bottom render pass that the UI framework runs after it; and the  *)
(* script of browser_notification_component(), which drives the reminder.  *)
(***************************************************************************)
EXTENDS Integers, Sequences, FiniteSets, TLC

VARIABLES
    file,                   \* what DATA_FILE_PATH holds (fixed for the process: load_data is cached)
    session_state,          \* st.session_state["completed_<session_id>"]: session_id -> (topic_id -> BOOLEAN)
    w_selectbox,            \* state of the session selectbox (a title, or Unset)
    w_radio,                \* state of the radios, by key topic_radio_<session_id>
    w_checkbox,             \* state of the checkboxes, by widget identity
    value_in_identity,      \* the installed Streamlit: whether value= is part of the
                            \* identity of a keyed widget, or the key alone
    out,                    \* what the last render pass computed and showed
    now,                    \* the browser's clock, in seconds
    notifier,               \* the script of browser_notification_component(): Notification
                            \* support and permission, intervalId, the button, the status line
    notifications           \* number of Notification objects showNotification has created

selvars == <<file, session_state, w_selectbox, w_radio, w_checkbox, value_in_identity, out>>
vars == <<file, session_state, w_selectbox, w_radio, w_checkbox, value_in_identity, out,
         now, notifier, notifications>>

---------------------------------------------------------------------------
(* Input data *)

Unset == "<unset>"
NoId == "<none>"

Topic(id, title) == [topic_id |-> id, topic_title |-> title]

\* The end-to-end example of the documentation: one session, topics A and B.
StoreCore ==
    << [session_id |-> "s1", session_title |-> "Core",
        topics |-> << Topic("a", "A"), Topic("b", "B") >>] >>

\* Several sessions: a topic_id shared by two sessions, two topics of one
\* session that carry the same title, a session without a "topics" field, a
\* session with an empty topic list, and two sessions that carry the same title.
StoreHub ==
    << [session_id |-> "s1", session_title |-> "Core",
        topics |-> << Topic("a", "A"), Topic("b", "B") >>],
       [session_id |-> "s2", session_title |-> "Extra",
        topics |-> << Topic("a", "Intro"), Topic("d", "Intro") >>],
       [session_id |-> "s3", session_title |-> "Empty"],
       [session_id |-> "s4", session_title |-> "Core",
        topics |-> << Topic("c", "C") >>],
       [session_id |-> "s5", session_title |-> "Blank", topics |-> << >>] >>

Stores == { << >>, StoreCore, StoreHub }

\* What DATA_FILE_PATH holds, by what open() and json.load() do with it:
\*   open       the exception open() raises, "none" when it opens the file
\*   valid_json whether the content is valid JSON text
\*   load       the exception json.load() raises, "none" when it returns
\*   is_list    whether the parsed top-level value is a list
\*   data       the parsed list
File(o, v, l, isl, d) ==
    [open |-> o, valid_json |-> v, load |-> l, is_list |-> isl, data |-> d]

\* open() of a missing file, a directory, a path through a regular file, an
\* unreadable file, a symlink loop
OpenExceptions ==
    {"FileNotFoundError", "IsADirectoryError", "NotADirectoryError",
     "PermissionError", "OSError"}

\* json.load() of content that is no JSON text: malformed text, bytes that are
\* not UTF-8, brackets nested deeper than the recursion limit, an unterminated
\* integer of more than 4300 digits
InvalidContentExceptions ==
    {"JSONDecodeError", "UnicodeDecodeError", "RecursionError", "ValueError"}

\* json.load() of valid JSON text that the parser still cannot build: a list
\* nested deeper than the recursion limit, an integer of more than 4300 digits
ValidContentExceptions == {"RecursionError", "ValueError"}

Files ==
    { File(e, FALSE, "none", FALSE, << >>) : e \in OpenExceptions }
    \cup { File("none", FALSE, e, FALSE, << >>) : e \in InvalidContentExceptions }
    \cup { File("none", TRUE, e, TRUE, << >>) : e \in ValidContentExceptions }
    \cup { File("none", TRUE, "none", FALSE, << >>) }
    \* content that is no valid JSON but that json.load accepts (NaN, Infinity):
    \* as the top-level value, and inside a list of sessions
    \cup { File("none", FALSE, "none", FALSE, << >>),
           File("none", FALSE, "none", TRUE, StoreCore) }
    \cup { File("none", TRUE, "none", TRUE, st) : st \in Stores }

---------------------------------------------------------------------------
(* Helpers of main() *)

None == [isNone |-> TRUE, val |-> << >>]
Some(v) == [isNone |-> FALSE, val |-> v]

\* what load_data does: a returned value, the st.error it showed, and the
\* exception that left it ("none" when it returned)
Returned(v, err) == [value |-> v, error |-> err, raised |-> "none"]
Raises(exc) == [value |-> None, error |-> "none", raised |-> exc]

\* the except clauses of load_data
CaughtExceptions == {"FileNotFoundError", "JSONDecodeError"}

\* load_data that rejects an empty list like a value that is no list
load_data_EmptyIsError(f) ==
    IF f.open # "none"
    THEN IF f.open = "FileNotFoundError" THEN Returned(None, "not_found")
         ELSE Raises(f.open)
    ELSE IF f.load # "none"
    THEN IF f.load = "JSONDecodeError" THEN Returned(None, "invalid_json")
         ELSE Raises(f.load)
    ELSE IF ~f.is_list \/ Len(f.data) = 0 THEN Returned(None, "expected_list")
    ELSE Returned(Some(f.data), "none")

\* load_data: the parsed list, or None after st.error(...). The try catches
\* FileNotFoundError and json.JSONDecodeError only: every other exception of
\* open() (line 55) and of json.load() (line 56) leaves the function.
load_data(f) ==
    IF f.open # "none"
    THEN IF f.open = "FileNotFoundError" THEN Returned(None, "not_found")
         ELSE Raises(f.open)
    ELSE IF f.load # "none"
    THEN IF f.load = "JSONDecodeError" THEN Returned(None, "invalid_json")
         ELSE Raises(f.load)
    ELSE IF ~f.is_list THEN Returned(None, "expected_list")
    ELSE Returned(Some(f.data), "none")

\* `not sessions`: None and the empty list are both falsy
Falsy(v) == v.isNone \/ Len(v.val) = 0

\* selected_session.get('topics', [])
GetTopics(s) == IF "topics" \in DOMAIN s THEN s.topics ELSE << >>

\* next((x for x in seq if x[field] == title), seq[0]); `field` is applied by the caller
FirstIndex(matches, n) ==
    IF \E i \in 1..n : matches[i]
    THEN CHOOSE i \in 1..n : matches[i] /\ \A j \in 1..(i - 1) : ~matches[j]
    ELSE 1

\* SelectSession taking the last session that carries the title
SelectSession_LastMatch(sessions, title) ==
    IF \E i \in DOMAIN sessions : sessions[i].session_title = title
    THEN sessions[CHOOSE i \in DOMAIN sessions :
                     /\ sessions[i].session_title = title
                     /\ \A j \in DOMAIN sessions :
                           j > i => sessions[j].session_title # title]
    ELSE sessions[1]

SelectSession(sessions, title) ==
    sessions[FirstIndex([i \in DOMAIN sessions |-> sessions[i].session_title = title],
                        Len(sessions))]

\* SelectTopic taking the last topic that carries the title
SelectTopic_LastMatch(topics, title) ==
    IF \E i \in DOMAIN topics : topics[i].topic_title = title
    THEN topics[CHOOSE i \in DOMAIN topics :
                   /\ topics[i].topic_title = title
                   /\ \A j \in DOMAIN topics : j > i => topics[j].topic_title # title]
    ELSE topics[1]

SelectTopic(topics, title) ==
    topics[FirstIndex([i \in DOMAIN topics |-> topics[i].topic_title = title],
                      Len(topics))]

\* NewCompletionMap with every topic marked complete
NewCompletionMap_DefaultTrue(topics) ==
    [k \in {topics[i].topic_id : i \in DOMAIN topics} |-> TRUE]

\* {t['topic_id']: False for t in topics}
NewCompletionMap(topics) ==
    [k \in {topics[i].topic_id : i \in DOMAIN topics} |-> FALSE]

\* d[k] = v on a dict: adds the key when it is missing
DictSet(d, k, v) == [x \in DOMAIN d \cup {k} |-> IF x = k THEN v ELSE d[x]]

\* sum(d.values()) over booleans
CompletedCount(d) == Cardinality({k \in DOMAIN d : d[k]})

\* Progress that counts a session without topics as complete
Progress_EmptyIsComplete(completed_count, topics) ==
    IF Len(topics) > 0 THEN <<completed_count, Len(topics)>> ELSE <<1, 1>>

\* completed_count / len(topics) if topics else 0, as the fraction <<numerator, denominator>>
Progress(completed_count, topics) ==
    IF Len(topics) > 0 THEN <<completed_count, Len(topics)>> ELSE <<0, 1>>

\* st.selectbox(label, options): the widget's value, first option by default
selectbox(state, options) == IF state = Unset THEN options[1] ELSE state

\* st.radio(label, options, key=...): the value kept under the key, first option by default
radio(states, key, options) == IF key \in DOMAIN states THEN states[key] ELSE options[1]

\* the identity of the widget st.checkbox(label, value=..., key=...): the
\* key with the value= it is drawn with, or the key alone, by the version of
\* Streamlit; a widget drawn with another value= is then another widget
WidgetId(key, value) == IF value_in_identity THEN <<key, value>> ELSE <<key>>

\* st.checkbox(label, value=..., key=...): the value kept for the widget, `value` by default
checkbox(states, id, value) == IF id \in DOMAIN states THEN states[id] ELSE value

Empty == [x \in {} |-> FALSE]

---------------------------------------------------------------------------
(* One render pass: main() from top to bottom *)

\* the pass ended before the sidebar: by st.stop() (exc = "none"), or by the
\* exception exc that load_data let through
Halted(event, err, exc) ==
    [event |-> event, rendered |-> TRUE, halted |-> TRUE, error |-> err,
     raised |-> exc,
     session_id |-> NoId, topic_id |-> NoId, no_topics_warning |-> FALSE,
     completed_count |-> 0, total |-> 0, progress |-> <<0, 1>>,
     checkbox_shown |-> FALSE, checkbox_id |-> << >>, is_complete |-> FALSE,
     topic_detail |-> FALSE]

Main(event, sb, rd, cb, ss) ==
    LET loaded == load_data(file)
    IN IF loaded.raised # "none" \/ Falsy(loaded.value)
       THEN \* the exception leaves main(), or st.stop(): nothing below is run,
            \* no widget is drawn
            [session_state |-> ss, w_selectbox |-> Unset, w_radio |-> Empty,
             w_checkbox |-> Empty,
             out |-> Halted(event, loaded.error, loaded.raised)]
       ELSE
       LET sessions == loaded.value.val
           session_titles == [i \in DOMAIN sessions |-> sessions[i].session_title]
           selected_session_title == selectbox(sb, session_titles)
           selected_session == SelectSession(sessions, selected_session_title)
           session_id == selected_session.session_id
           topics == GetTopics(selected_session)
           topic_titles == [i \in DOMAIN topics |-> topics[i].topic_title]
           has_topics == Len(topic_titles) > 0
           selected_topic_title ==
               IF has_topics THEN radio(rd, session_id, topic_titles) ELSE Unset
           topic_id ==
               IF has_topics THEN SelectTopic(topics, selected_topic_title).topic_id
               ELSE NoId
           ss1 == IF session_id \in DOMAIN ss THEN ss
                  ELSE ss @@ (session_id :> NewCompletionMap(topics))
           completed_count == CompletedCount(ss1[session_id])
           progress == Progress(completed_count, topics)
           value == IF has_topics THEN ss1[session_id][topic_id] ELSE FALSE
           checkbox_id == IF has_topics THEN WidgetId(topic_id, value) ELSE << >>
           is_complete ==
               IF has_topics THEN checkbox(cb, checkbox_id, value) ELSE FALSE
           ss2 == IF has_topics
                  THEN [ss1 EXCEPT ![session_id] = DictSet(@, topic_id, is_complete)]
                  ELSE ss1
       IN [session_state |-> ss2,
           w_selectbox |-> selected_session_title,
           w_radio |-> IF has_topics THEN (session_id :> selected_topic_title) ELSE Empty,
           w_checkbox |-> IF has_topics THEN (checkbox_id :> is_complete) ELSE Empty,
           out |-> [event |-> event, rendered |-> TRUE, halted |-> FALSE,
                    error |-> loaded.error, raised |-> "none",
                    session_id |-> session_id, topic_id |-> topic_id,
                    no_topics_warning |-> ~has_topics,
                    completed_count |-> completed_count, total |-> Len(topics),
                    progress |-> progress,
                    checkbox_shown |-> has_topics, checkbox_id |-> checkbox_id,
                    is_complete |-> is_complete,
                    topic_detail |-> has_topics]]

Pass(event, sb, rd, cb) ==
    LET r == Main(event, sb, rd, cb, session_state)
    IN /\ session_state' = r.session_state
       /\ w_selectbox' = r.w_selectbox
       /\ w_radio' = r.w_radio
       /\ w_checkbox' = r.w_checkbox
       /\ out' = r.out
       /\ UNCHANGED <<file, value_in_identity, now, notifier, notifications>>

---------------------------------------------------------------------------
(* Events *)

LoadedSessions == load_data(file).value.val

SessionTitleInputs ==
    {LoadedSessions[i].session_title : i \in DOMAIN LoadedSessions}

CurrentTopics ==
    GetTopics(CHOOSE s \in {LoadedSessions[i] : i \in DOMAIN LoadedSessions} :
                  s.session_id = out.session_id)

TopicTitleInputs ==
    {CurrentTopics[i].topic_title : i \in DOMAIN CurrentTopics}

\* the page is opened, or rerun without any widget change
Rerun == Pass("rerun", w_selectbox, w_radio, w_checkbox)

\* the user picks a title in the session selectbox
SelectSessionEvent ==
    /\ out.rendered /\ ~out.halted
    /\ \E title \in SessionTitleInputs :
          Pass("select_session", title, w_radio, w_checkbox)

\* the user picks a title in the topic radio of the session on screen
SelectTopicEvent ==
    /\ out.rendered /\ ~out.halted /\ out.checkbox_shown
    /\ \E title \in TopicTitleInputs :
          Pass("select_topic", w_selectbox,
               [w_radio EXCEPT ![out.session_id] = title], w_checkbox)

\* the user clicks the "Mark as Complete" checkbox on screen
ToggleCompletionEvent ==
    /\ out.rendered /\ ~out.halted /\ out.checkbox_shown
    /\ Pass("toggle_completion", w_selectbox, w_radio,
            [w_checkbox EXCEPT ![out.checkbox_id] = ~@])

---------------------------------------------------------------------------
(* Specification of the selection state *)

NotRendered ==
    [event |-> "none", rendered |-> FALSE, halted |-> FALSE, error |-> "none",
     raised |-> "none",
     session_id |-> NoId, topic_id |-> NoId, no_topics_warning |-> FALSE,
     completed_count |-> 0, total |-> 0, progress |-> <<0, 1>>,
     checkbox_shown |-> FALSE, checkbox_id |-> << >>, is_complete |-> FALSE,
     topic_detail |-> FALSE]

\* the script when the component is first drawn: let intervalId = null, the
\* button visible, the status line empty; `started` is the instant of the
\* last setInterval call or of the last run of its callback
NotifierStart(supported, permission) ==
    [supported |-> supported, permission |-> permission, intervalId |-> 0,
     started |-> 0, hidden |-> FALSE, status |-> "", requests |-> 0]

Init ==
    /\ file \in Files
    /\ session_state = Empty
    /\ w_selectbox = Unset
    /\ w_radio = Empty
    /\ w_checkbox = Empty
    /\ value_in_identity \in BOOLEAN
    /\ out = NotRendered
    /\ now = 0
    /\ notifier = NotifierStart(TRUE, "default")
    /\ notifications = 0

Next ==
    \/ Rerun
    \/ SelectSessionEvent
    \/ SelectTopicEvent
    \/ ToggleCompletionEvent

Spec == Init /\ [][Next]_vars

---------------------------------------------------------------------------
(* Properties of the selection state *)

SessionById(sid) ==
    CHOOSE s \in {LoadedSessions[i] : i \in DOMAIN LoadedSessions} : s.session_id = sid

TopicIds(sid) ==
    LET topics == GetTopics(SessionById(sid))
    IN {topics[i].topic_id : i \in DOMAIN topics}

Shown == out.rendered /\ ~out.halted

\* C1 (as claimed): in the render pass that a toggle triggers, the progress
\* shown is (number of entries that are true after the toggle) / N.
C1_ProgressReflectsToggle ==
    (Shown /\ out.event = "toggle_completion") =>
        out.progress = <<CompletedCount(session_state[out.session_id]), out.total>>

\* C2 (as claimed): a select-session or select-topic event leaves every
\* CompletionMap entry as it was (a map created by the event holds only
\* false), and a toggle changes no entry but that of the topic toggled.
C2_OnlyToggleChangesEntries ==
    [][\A sid \in DOMAIN session_state' :
         \A t \in DOMAIN session_state'[sid] :
            LET before == IF sid \in DOMAIN session_state /\ t \in DOMAIN session_state[sid]
                          THEN session_state[sid][t] ELSE FALSE
                toggled == /\ out'.event = "toggle_completion"
                           /\ sid = out.session_id
                           /\ t = out.topic_id
            IN toggled \/ session_state'[sid][t] = before]_vars

\* C3 (as claimed): progress of every viewed session is in [0,1], is 0 when
\* the session has no topic, and is 1 exactly when every entry is true.
C3_ProgressOneIffAllTrue ==
    \A sid \in DOMAIN session_state :
        LET topics == GetTopics(SessionById(sid))
            m == session_state[sid]
            p == Progress(CompletedCount(m), topics)
        IN /\ 0 <= p[1] /\ p[1] <= p[2] /\ p[2] > 0
           /\ (Len(topics) = 0 => p[1] = 0)
           /\ (p[1] = p[2]) <=> (\A i \in DOMAIN topics : m[topics[i].topic_id])

\* C3 (amended): progress of every viewed session, and the progress shown by
\* every pass, is in [0,1]; it is 0 when the session has no topic; it is 1
\* exactly when the session has at least one topic and every entry is true.
C3_ProgressRange ==
    /\ \A sid \in DOMAIN session_state :
          LET topics == GetTopics(SessionById(sid))
              m == session_state[sid]
              p == Progress(CompletedCount(m), topics)
          IN /\ 0 <= p[1] /\ p[1] <= p[2] /\ p[2] > 0
             /\ (Len(topics) = 0 => p[1] = 0)
             /\ (p[1] = p[2]) <=>
                   (Len(topics) >= 1 /\ \A i \in DOMAIN topics : m[topics[i].topic_id])
    /\ Shown =>
          /\ 0 <= out.progress[1] /\ out.progress[1] <= out.progress[2]
          /\ out.progress[2] > 0
          /\ (out.total = 0 => out.progress[1] = 0)

C3_Witness ==
    /\ Shown /\ out.session_id = "s5"
    /\ "s1" \in DOMAIN session_state
    /\ \A t \in DOMAIN session_state["s1"] : session_state["s1"][t]

\* C4: the map of a session appears in the pass that first views the session,
\* with every entry false when it is read for the progress bar; a later view
\* keeps the entries it finds (the checkbox writes only the selected topic);
\* and the keys of every map are exactly the topic_ids of its session.
C4_LazyMapExactKeys ==
    /\ [](\A sid \in DOMAIN session_state : DOMAIN session_state[sid] = TopicIds(sid))
    /\ [](Shown => out.session_id \in DOMAIN session_state)
    /\ [][/\ DOMAIN session_state \subseteq DOMAIN session_state'
          /\ DOMAIN session_state' \subseteq DOMAIN session_state \cup {out'.session_id}
          /\ \A sid \in DOMAIN session_state' :
                IF sid \notin DOMAIN session_state
                THEN /\ out'.completed_count = 0
                     /\ \A t \in DOMAIN session_state'[sid] :
                           t # out'.topic_id => ~session_state'[sid][t]
                ELSE \A t \in DOMAIN session_state'[sid] :
                        (sid # out'.session_id \/ t # out'.topic_id)
                            => session_state'[sid][t] = session_state[sid][t]]_vars

C4_Witness ==
    /\ Shown /\ out.event = "select_session" /\ out.session_id = "s1"
    /\ out.topic_id = "a"
    /\ "s1" \in DOMAIN session_state /\ session_state["s1"]["b"]
    /\ "s3" \in DOMAIN session_state

\* C7 (as claimed): a load that fails with NotFound (no readable file at the
\* path) or MalformedData (content that is not valid JSON, or a top-level
\* value that is no list) makes the pass show an error message and stop: no
\* session, no topic, no map, no widget, no topic detail.
LoadFails ==
    \/ file.open # "none"
    \/ ~file.valid_json
    \/ (file.load = "none" /\ ~file.is_list)

C7_LoadFailureHalts ==
    (out.rendered /\ LoadFails) =>
        /\ out.halted
        /\ out.error # "none" /\ out.raised = "none"
        /\ out.session_id = NoId /\ out.topic_id = NoId
        /\ session_state = Empty
        /\ w_selectbox = Unset /\ w_radio = Empty /\ w_checkbox = Empty
        /\ ~out.topic_detail /\ ~out.checkbox_shown /\ ~out.no_topics_warning

\* The three failures that load_data catches (FileNotFoundError,
\* json.JSONDecodeError, a value that is no list) show their own message and
\* stop the pass; every failed load, caught or not, selects nothing and
\* creates no map; and a pass ends by exactly the exception of open() or
\* json.load() that no except clause names.
LoadCaughtFailureHalts ==
    /\ (out.rendered /\ (file.open # "none" \/ file.load # "none" \/ ~file.is_list)) =>
          /\ out.halted
          /\ out.session_id = NoId /\ out.topic_id = NoId
          /\ session_state = Empty
          /\ w_selectbox = Unset /\ w_radio = Empty /\ w_checkbox = Empty
          /\ ~out.topic_detail /\ ~out.checkbox_shown /\ ~out.no_topics_warning
    /\ (out.rendered /\ (file.open # "none" \/ file.load # "none" \/ ~file.is_list)
          /\ file.open \in {"none", "FileNotFoundError"}
          /\ file.load \in {"none", "JSONDecodeError"}) =>
          /\ out.raised = "none"
          /\ out.error = (IF file.open = "FileNotFoundError" THEN "not_found"
                          ELSE IF file.load = "JSONDecodeError" THEN "invalid_json"
                          ELSE "expected_list")
    /\ out.rendered =>
          out.raised = (IF file.open \notin CaughtExceptions \cup {"none"} THEN file.open
                        ELSE IF file.open = "none"
                                /\ file.load \notin CaughtExceptions \cup {"none"}
                        THEN file.load ELSE "none")

\* C8: the session of a pass is the first session, in store order, that
\* carries the selected title, and the first session of the store when no
\* session carries it; the lookup of line 148, applied to the loaded store
\* and to any title, one that no session carries included, gives a session
\* of the store by the same rule.
C8_SessionFallback ==
    Shown =>
        /\ \E i \in DOMAIN LoadedSessions :
              /\ LoadedSessions[i].session_id = out.session_id
              /\ \/ /\ LoadedSessions[i].session_title = w_selectbox
                    /\ \A j \in 1..(i - 1) : LoadedSessions[j].session_title # w_selectbox
                 \/ /\ i = 1
                    /\ \A j \in DOMAIN LoadedSessions :
                          LoadedSessions[j].session_title # w_selectbox
        /\ \A title \in SessionTitleInputs \cup {"(no such title)"} :
              LET carriers == {i \in DOMAIN LoadedSessions :
                                  LoadedSessions[i].session_title = title}
                  found == SelectSession(LoadedSessions, title)
              IN IF carriers = {}
                 THEN found = LoadedSessions[1]
                 ELSE \E i \in carriers :
                         /\ found = LoadedSessions[i]
                         /\ \A j \in carriers : i <= j

C8_Witness ==
    /\ Shown /\ out.event = "select_session"
    /\ w_selectbox = "Core" /\ out.session_id = "s1"
    /\ \E i \in DOMAIN LoadedSessions :
          LoadedSessions[i].session_title = "Core" /\ LoadedSessions[i].session_id = "s4"
    /\ Len(LoadedSessions) > 1 /\ "s2" \in DOMAIN session_state

C10_EmptyStoreHaltsSilently ==
    /\ (out.rendered /\ file.open = "none" /\ file.load = "none"
          /\ file.is_list /\ Len(file.data) = 0) =>
          /\ out.halted /\ out.error = "none" /\ out.raised = "none"
          /\ out.session_id = NoId /\ out.topic_id = NoId
          /\ session_state = Empty
          /\ w_selectbox = Unset /\ w_radio = Empty /\ w_checkbox = Empty
          /\ ~out.topic_detail
    /\ Shown => (file.open = "none" /\ file.load = "none"
                 /\ file.is_list /\ Len(file.data) >= 1)

C10_Witness ==
    /\ out.rendered /\ out.halted /\ out.error = "none" /\ out.raised = "none"
    /\ file.open = "none" /\ file.load = "none" /\ file.is_list

---------------------------------------------------------------------------
(* browser_notification_component(): the reminder *)

NOTIFICATION_INTERVAL_MINUTES == 2

MaxNow == 245
MaxRequests == 2

\* the interval without the factor 60
interval_ms_NoSixty == NOTIFICATION_INTERVAL_MINUTES * 1000

\* interval_ms = NOTIFICATION_INTERVAL_MINUTES * 60 * 1000
interval_ms == NOTIFICATION_INTERVAL_MINUTES * 60 * 1000

\* the interval in ticks of the clock (seconds)
IntervalSeconds == interval_ms \div 1000

IntervalActive == notifier.intervalId # 0

\* time since the interval was set or its callback last ran
Elapsed == now - notifier.started

\* if (intervalId) clearInterval(intervalId); intervalId = setInterval(...);
\* statusEl.textContent = enabled; notifyBtn.style.display = 'none'
EnableNotifications(n, t, text) ==
    [n EXCEPT !.intervalId = @ + 1, !.started = t, !.status = text, !.hidden = TRUE]

\* notifyBtn.onclick; the button can be clicked while it is drawn and visible
NotifyBtnClick ==
    /\ out.rendered /\ ~out.halted
    /\ ~notifier.hidden
    /\ notifier' =
          IF ~notifier.supported
          THEN [notifier EXCEPT !.status = "not_supported"]
          ELSE IF notifier.permission = "granted"
          THEN EnableNotifications(notifier, now, "enabled")
          ELSE IF notifier.permission # "denied"
          THEN [notifier EXCEPT !.requests = @ + 1]
          ELSE [notifier EXCEPT !.status = "denied_in_settings"]
    /\ (notifier.supported /\ notifier.permission = "default")
          => notifier.requests < MaxRequests
    /\ UNCHANGED <<now, notifications, selvars>>

\* the user answers (or dismisses) the permission prompt: the callback of every
\* pending Notification.requestPermission() runs with the answer
PermissionAnswered ==
    /\ notifier.requests > 0
    /\ \E permission \in {"granted", "denied", "default"} :
          notifier' =
             IF permission = "granted"
             THEN [EnableNotifications(notifier, now, "enabled")
                     EXCEPT !.permission = permission,
                            !.intervalId = notifier.intervalId + notifier.requests,
                            !.requests = 0]
             ELSE [notifier EXCEPT !.permission = permission,
                                   !.status = "permission_denied",
                                   !.requests = 0]
    /\ UNCHANGED <<now, notifications, selvars>>

\* the callback of setInterval: showNotification creates one Notification, and
\* the interval starts over
ShowNotification ==
    /\ IntervalActive
    /\ Elapsed >= IntervalSeconds
    /\ notifications' = notifications + 1
    /\ notifier' = [notifier EXCEPT !.started = now]
    /\ UNCHANGED <<now, selvars>>

\* a second passes; a callback that is due waits until the thread of the
\* page is free, so the clock can move on before it runs
Tick ==
    /\ now < MaxNow
    /\ now' = now + 1
    /\ UNCHANGED <<notifier, notifications, selvars>>

\* the page of a store with sessions: main() reaches line 182 and draws the
\* component; the browser may or may not support notifications, and may
\* remember a permission
TimerInit ==
    /\ file = File("none", TRUE, "none", TRUE, StoreCore)
    /\ session_state = Empty
    /\ w_selectbox = Unset
    /\ w_radio = Empty
    /\ w_checkbox = Empty
    /\ value_in_identity \in BOOLEAN
    /\ out = NotRendered
    /\ now = 0
    /\ \E supported \in BOOLEAN, permission \in {"default", "granted", "denied"} :
          notifier = NotifierStart(supported, permission)
    /\ notifications = 0

\* the passes of main() redraw the component with the same HTML, which leaves
\* the running script alone
TimerNext ==
    \/ Rerun
    \/ NotifyBtnClick
    \/ PermissionAnswered
    \/ ShowNotification
    \/ Tick

\* the event loop runs a callback that is due once the thread is free
TimerSpec == TimerInit /\ [][TimerNext]_vars /\ WF_vars(ShowNotification)

---------------------------------------------------------------------------
(* Properties of the reminder *)

C6_UserCanResetTimer ==
    (out.rendered /\ ~out.halted /\ IntervalActive) => ENABLED NotifyBtnClick

=============================================================================
